---- MODULE Spec2Model ----
(***************************************************************************)
(* Model of the field-of-view tiler of FijiPyLib (ROITools.gridOfFields)   *)
(* and of the ROI helpers it calls.                                         *)
(*                                                                         *)
(* Geometry.  A region (Fiji ROI) is the set of pixels it covers, held as  *)
(* the set of its maximal horizontal runs <<y, x1, x2>>: the pixels        *)
(* <<x1, y>> .. <<x2, y>> of row y.  Pixel <<x, y>> is the unit square     *)
(* [x, x+1] x [y, y+1], so the outline vertices of a region lie on integer *)
(* coordinates and its bounding width is maxX - minX + 1.  The tiling      *)
(* geometry is modelled for tile scans whose stored rotation is 0          *)
(* (rotationDegrees a multiple of 90), where makeRotatedR0I yields         *)
(* axis-aligned squares.                                                   *)
(*                                                                         *)
(* A value that the code holds as "None, one ROI, or a list of ROIs"       *)
(* (getOpenROIs) is a sequence of regions: <<>> is None, <<r>> is the      *)
(* single ROI r, longer sequences are Python lists.                        *)
(***************************************************************************)
EXTENDS Integers, Sequences, FiniteSets, TLC

\* ------------------------------------------------------------------ bounds
MaxDim     == 5    \* canvas width and height range over 1 .. MaxDim
MaxField   == 3    \* field_size ranges over 1 .. MaxField
MaxOverlap == 1    \* field_overlap ranges over 0 .. MaxOverlap
MaxPad     == 2    \* size of the blank corner triangles left by a rotation
MaxTurns   == 1    \* rotationDegrees ranges over 90 * (-MaxTurns .. MaxTurns)
MaxRot     == 450  \* rotationDegrees ranges over -MaxRot .. MaxRot (SpecRot)
MaxSide    == 3    \* library functions: regions of a MaxSide x MaxSide canvas
MaxRun     == 120  \* isContained: rows of up to MaxRun pixels
MaxGrow    == 1    \* subtractROI: growth ranges over 0 .. MaxGrow
MaxStat    == 2    \* ttest: means and variances in 0 .. MaxStat, sample sizes in 1 .. MaxStat
MaxCoord   == 2    \* getTopLeftPoint: outline points (x, y) in 0 .. MaxCoord - 1, 0 .. MaxCoord
MaxPts     == 3    \* getTopLeftPoint: outlines of up to MaxPts points
IterCap    == 20   \* the iteration count nIter saturates at IterCap

VARIABLES
  pc,              \* "Seeding", "Iterating", "Done" or "Error" ("Rotated": SpecRot)
  err,             \* the exception that ended the run ("" if none)
  img,             \* the (normalised max projection of the) input image
  field_size, field_overlap, rotationDegrees,   \* arguments of gridOfFields
  rotation,        \* self.rotation
  imgROI,          \* self.imgROI   (<<>> is None, <<r>> is the ROI r)
  imgSegMask,      \* self.imgSegMask: the pixels of the mask that are 255
  ROIs,            \* self.ROIs: the fields [name, x, y, width, rotation]
  iFov,            \* the field counter
  imgROIArea,      \* the loop variable imgROIArea
  rm,              \* the shared ROI Manager: a sequence of regions
  origROI,         \* history: self.imgROI as computed before the loop
  last,            \* history: what the last loop iteration did
  nIter,           \* history: loop iterations so far, saturating at IterCap
  run,             \* 1 in the first call of gridOfFields, 2 in the repeat
  fieldBoundary,   \* self.fieldBoundary, in the coordinates of a cropped field
  first,           \* history: outcome of the first call
  called,          \* the library function applied on its own ("" if none yet)
  args,            \* the arguments it was applied to
  result           \* what it returned or raised

\* The state of a gridOfFields object and of its caller.
grid == <<pc, err, img, field_size, field_overlap, rotationDegrees, rotation,
          imgROI, imgSegMask, ROIs, iFov, imgROIArea, origROI, last, nIter, run,
          fieldBoundary, first>>

vars == <<grid, rm, called, args, result>>

\* ------------------------------------------------------------- arithmetic
Abs(n) == IF n < 0 THEN -n ELSE n

MinOf(S) == CHOOSE m \in S : \A n \in S : m <= n

MaxOf(S) == CHOOSE m \in S : \A n \in S : m >= n

\* Python's a % b for b < 0: the result has the sign of the divisor.
PyModTrunc(a, b) == IF a >= 0 THEN a % (-b) ELSE -((-a) % (-b))

PyModOnce(a, b) == IF a > 0 THEN a + b ELSE a

PyMod(a, b) == -((-a) % (-b))

\* ceil(cropWidth/2.0) and floor(cropWidth/2.0)
ceil2(n) == (n + 1) \div 2

floor2(n) == n \div 2

\* ---------------------------------------------------------------- regions
\* The square with top left corner (x, y): `width` rows of one run each.
Square(x, y, width) == {<<j, x, x + width - 1>> : j \in y .. (y + width - 1)}

\* The runs of region R in row y, and whether R covers pixel <<x, y>>.
Row(R, y) == {r \in R : r[1] = y}

Covered(R, y, x) == \E r \in R : r[1] = y /\ r[2] <= x /\ x <= r[3]

\* The pixels of a region, and the region of a set of pixels <<x, y>>.
Pixels(R) == UNION {{<<x, r[1]>> : x \in r[2] .. r[3]} : r \in R}

RunsOf(S) ==
  {<<p[2], p[1], MinOf({x \in p[1] .. MaxOf({q[1] : q \in S}) : <<x + 1, p[2]>> \notin S})>> :
     p \in {q \in S : <<q[1] - 1, q[2]>> \notin S}}

\* ROI.getContainedFloatPoints().npoints: the number of pixels of a region.
npoints(R) == Cardinality(Pixels(R))

\* Overlapping or touching runs merged into maximal runs.
RunEnd(U, y, x) ==
  MinOf({r[3] : r \in {q \in U : q[1] = y /\ q[3] >= x /\ ~Covered(U, y, q[3] + 1)}})

Normalize(U) ==
  {<<r[1], r[2], RunEnd(U, r[1], r[2])>> : r \in {q \in U : ~Covered(U, q[1], q[2] - 1)}}

\* The part of the rectangle [xa, xb] x [ya, yb] that region B leaves free.
GapStarts(B, y, xa, xb) ==
  {s \in {xa} \cup {r[3] + 1 : r \in Row(B, y)} : s >= xa /\ s <= xb /\ ~Covered(B, y, s)}

GapEnd(B, y, s, xb) == MinOf({xb} \cup {r[2] - 1 : r \in {q \in Row(B, y) : q[2] > s}})

ComplementRuns(B, xa, xb, ya, yb) ==
  UNION {{<<y, s, GapEnd(B, y, s, xb)>> : s \in GapStarts(B, y, xa, xb)} : y \in ya .. yb}

\* ShapeRoi.and of two regions.
And(A, B) ==
  {<<a[1], IF a[2] > b[2] THEN a[2] ELSE b[2], IF a[3] < b[3] THEN a[3] ELSE b[3]>> :
     <<a, b>> \in {ab \in A \X B : /\ ab[1][1] = ab[2][1]
                                  /\ ab[1][2] <= ab[2][3]
                                  /\ ab[2][2] <= ab[1][3]}}

MinX(R) == MinOf({r[2] : r \in R})

MaxX(R) == MaxOf({r[3] : r \in R})

MinY(R) == MinOf({r[1] : r \in R})

MaxY(R) == MaxOf({r[1] : r \in R})

\* The pixels of A outside B (ImagePlus.cut() clears the pixels inside B).
Minus(A, B) ==
  UNION {{<<a[1], s, GapEnd(B, a[1], s, a[3])>> : s \in GapStarts(B, a[1], a[2], a[3])} :
           a \in A}

\* ROI.getFloatWidth() and ROI.getFloatHeight(); an empty shape has none.
getFloatWidth(R) == IF R = {} THEN 0 ELSE MaxX(R) - MinX(R) + 1

getFloatHeight(R) == IF R = {} THEN 0 ELSE MaxY(R) - MinY(R) + 1

\* Two runs in neighbouring rows that touch (conn = 4: along an edge; conn =
\* 8: along an edge or at a corner).
Adj(a, b, conn) ==
  /\ a[1] - b[1] \in {-1, 1}
  /\ a[2] <= b[3] + (IF conn = 8 THEN 1 ELSE 0)
  /\ b[2] <= a[3] + (IF conn = 8 THEN 1 ELSE 0)

\* The runs of S connected to the frontier, added to `seen`.
RECURSIVE Flood(_, _, _, _)
Flood(S, frontier, seen, conn) ==
  IF frontier = {} THEN seen
  ELSE LET nxt == {r \in S : r \notin seen /\ \E f \in frontier : Adj(f, r, conn)}
       IN  Flood(S, nxt, seen \cup nxt, conn)

\* The first run of a non-empty region in raster order (top row first).
FirstRun(R) ==
  CHOOSE r \in R : \A q \in R : r[1] < q[1] \/ (r[1] = q[1] /\ r[2] <= q[2])

\* The connected components of R, in raster order of their first pixel.
RECURSIVE Components(_, _)
ComponentOf(R, s, conn) == Flood(R, {s}, {s}, conn)

ThenComponents(R, C, conn) == <<C>> \o Components(R \ C, conn)

Components(R, conn) ==
  IF R = {} THEN <<>>
  ELSE ThenComponents(R, ComponentOf(R, FirstRun(R), conn), conn)

\* The pixels outside R that R encloses: not connected to the frame around
\* the bounding box of R.
HolesIn(out, frame) == out \ Flood(out, {frame}, {frame}, 8)

Holes(R) ==
  IF R = {} THEN {}
  ELSE HolesIn(ComplementRuns(R, MinX(R) - 1, MaxX(R) + 1, MinY(R) - 1, MaxY(R) + 1),
               <<MinY(R) - 1, MinX(R) - 1, MaxX(R) + 1>>)

\* ------------------------------------------------------------ ROI Manager
\* getOpenROIs(): None (<<>>), the single ROI (<<r>>) or the list of ROIs.
getOpenROIs(manager) == manager

\* clearROIs(): rm.reset()
clearROIs(manager) == <<>>

\* addROIs2Manager(ROIs) called with a ROI or a list: each ROI is appended.
\* Called with None it reaches rm.addRoi(None), which adds the selection of
\* the active image (`selection`).
addROIs2Manager(manager, rois, selection) ==
  IF rois = <<>> THEN manager \o selection ELSE manager \o rois

\* saveROIs(ROIs, outFilePath): the ROI Manager after the call.  The ROIs that
\* were open are put back unless there were none.
saveROIs(rois, manager) ==
  IF getOpenROIs(manager) # <<>>
  THEN addROIs2Manager(clearROIs(addROIs2Manager(clearROIs(manager), rois, <<>>)),
                       getOpenROIs(manager), <<>>)
  ELSE clearROIs(addROIs2Manager(clearROIs(manager), rois, <<>>))

\* openROIFile(ROIFile) for a file holding the ROIs `saved`: [roi, rm] with
\* the ROIs returned and the ROI Manager after the call.
openROIFile(saved, manager) ==
  [roi |-> getOpenROIs(clearROIs(manager) \o saved),
   rm  |-> IF getOpenROIs(manager) # <<>>
           THEN addROIs2Manager(clearROIs(clearROIs(manager) \o saved),
                                getOpenROIs(manager), <<>>)
           ELSE clearROIs(clearROIs(manager) \o saved)]

\* The regions of a sequence.
Range(seq) == {seq[i] : i \in 1 .. Len(seq)}

\* combineROIs(ROIs): the union (ShapeRoi.or) of the listed ROIs.
combineROIs(rois) == Normalize(UNION Range(rois))

\* getIntersectingROI(ROIs): ShapeRoi.and folded over the list.
RECURSIVE getIntersectingROI(_)
getIntersectingROI(rois) ==
  IF Len(rois) = 1 THEN rois[1]
  ELSE And(rois[Len(rois)], getIntersectingROI(SubSeq(rois, 1, Len(rois) - 1)))

\* ROIs[0] (lines 722 and 1078): the exception it raises, "" if none.
FirstOfList(rois) == IF Len(rois) = 0 THEN "IndexError" ELSE ""

\* combineROIs(ROIs) and getIntersectingROI(ROIs) as a caller sees them:
\* [roi, err] with the ROI returned or the exception raised.
combineROIs_Unchecked(rois) == [roi |-> <<combineROIs(rois)>>, err |-> ""]

combineROIs_Call(rois) ==
  IF FirstOfList(rois) # ""
  THEN [roi |-> <<>>, err |-> FirstOfList(rois)]
  ELSE [roi |-> <<combineROIs(rois)>>, err |-> ""]

getIntersectingROI_Call(rois) ==
  IF FirstOfList(rois) # ""
  THEN [roi |-> <<>>, err |-> FirstOfList(rois)]
  ELSE [roi |-> <<getIntersectingROI(rois)>>, err |-> ""]

\* ----------------------------------------------------------- thresholding
\* An image [w, h, dark, lo, hi]: the pixels of region `dark` have intensity
\* lo, every other pixel of the w x h canvas has intensity hi > lo.
Canvas(im) == {<<j, 0, im.w - 1>> : j \in 0 .. (im.h - 1)}

Bright(im) == ComplementRuns(im.dark, 0, im.w - 1, 0, im.h - 1)

\* imgStats.min and imgStats.max
ImgMin(im) == IF im.dark = {} THEN im.hi ELSE im.lo

ImgMax(im) == IF Bright(im) = {} THEN im.lo ELSE im.hi

\* The pixels inside the threshold [min + 1, max].
InThreshold_All(v, lo, hi) == v <= hi

InThreshold(v, lo, hi) == v >= lo /\ v <= hi

AboveMin(im) ==
  (IF InThreshold(im.hi, ImgMin(im) + 1, ImgMax(im)) THEN Bright(im) ELSE {})
  \cup (IF InThreshold(im.lo, ImgMin(im) + 1, ImgMax(im)) THEN im.dark ELSE {})

\* Raster order of two non-empty regions: by row, then column, of the first pixel.
Before(P, Q) ==
  \/ FirstRun(P)[1] < FirstRun(Q)[1]
  \/ FirstRun(P)[1] = FirstRun(Q)[1] /\ FirstRun(P)[2] <= FirstRun(Q)[2]

FirstPart(parts) == CHOOSE P \in parts : \A Q \in parts : Before(P, Q)

RECURSIVE InRasterOrder(_)
InRasterOrder(parts) ==
  IF parts = {} THEN <<>>
  ELSE <<FirstPart(parts)>> \o InRasterOrder(parts \ {FirstPart(parts)})

\* A connected part with the holes of its outline filled.
Filled(C) == Normalize(C \cup Holes(C))

\* The parts ShapeRoi.getRois() splits a selection into, as the Split command
\* of the ROI Manager adds them: the filled outline of every connected part
\* and every hole, each a polygon of its own, in raster order.
SplitROI(S) ==
  InRasterOrder({Filled(C) : C \in Range(Components(S, 4))}
                \cup Range(Components(Holes(S), 4)))

\* ROI.getTypeAsString() == 'Composite': the selection has several outlines.
IsComposite(S) == Len(SplitROI(S)) > 1

\* rm.runCommand('Split'): the parts of a composite selection (a ShapeRoi,
\* whatever the number of its parts) are added to the ROI Manager; any other
\* selection is refused and nothing is added.
SplitCommand(parts, composite) == IF composite THEN parts ELSE <<>>

\* -------------------------------------------------------------- cleanUpROI
\* Index of the first maximum of a non-empty sequence of numbers.
FirstMaxIndex(areas) ==
  MinOf({i \in 1 .. Len(areas) :
           areas[i] = MaxOf({areas[k] : k \in 1 .. Len(areas)})})

\* splitROIAreas: the bounding area of every split ROI.
splitROIAreas(splitROIs) ==
  [i \in 1 .. Len(splitROIs) |->
     getFloatWidth(splitROIs[i]) * getFloatHeight(splitROIs[i])]

\* cleanUpROI from the second getOpenROIs() on: `opened` is what the ROI
\* Manager holds after the Split command, prevOpenROIs what it held before
\* the call.  The result is [roi, rm, err]; err is the exception raised.
cleanUpROI_Pick_KeepFirst(prevOpenROIs, opened) ==
  IF Len(opened) = 1
  THEN [roi |-> <<>>, rm |-> opened, err |-> "TypeError"]
  ELSE [roi |-> <<opened[FirstMaxIndex(splitROIAreas(opened))]>>,
        rm  |-> addROIs2Manager(clearROIs(opened), prevOpenROIs,
                                <<opened[Len(opened)]>>),
        err |-> ""]

cleanUpROI_Pick(prevOpenROIs, opened) ==
  IF Len(opened) = 1
  THEN [roi |-> <<>>, rm |-> opened, err |-> "TypeError"]
  ELSE [roi |-> <<Tail(opened)[FirstMaxIndex(splitROIAreas(Tail(opened)))]>>,
        rm  |-> addROIs2Manager(clearROIs(opened), prevOpenROIs,
                                <<opened[Len(opened)]>>),
        err |-> ""]

\* cleanUpROI(ROI, img) with the ROI Manager holding `manager`; composite
\* tells whether ROI is a composite selection (a ShapeRoi).
cleanUpROI(ROI, composite, manager) ==
  cleanUpROI_Pick(getOpenROIs(manager),
                  getOpenROIs(addROIs2Manager(clearROIs(manager), <<ROI>>, <<>>)
                              \o SplitCommand(SplitROI(ROI), composite)))

\* ------------------------------------------------------------ subtractROI
\* ShapeRoi.xor of two regions.
Xor(A, B) == Normalize(Minus(A, B) \cup Minus(B, A))

\* Whether a region is a rectangle, and the rectangle 'Fit Rectangle' puts
\* around a selection made of whole pixels.
IsRectangle(R) == R = {<<y, MinX(R), MaxX(R)>> : y \in MinY(R) .. MaxY(R)}

FitRectangle(R) == {<<y, MinX(R), MaxX(R)>> : y \in MinY(R) .. MaxY(R)}

\* roienlarger.enlarge(ROI, n): a rectangle grows by n on every side; any
\* other selection takes in the pixels at distance n or less from it.
enlarge(R, n) ==
  IF IsRectangle(R)
  THEN {<<y, MinX(R) - n, MaxX(R) + n>> : y \in (MinY(R) - n) .. (MaxY(R) + n)}
  ELSE RunsOf({p \in ((MinX(R) - n) .. (MaxX(R) + n)) \X ((MinY(R) - n) .. (MaxY(R) + n)) :
                 \E q \in Pixels(R) :
                   ((p[1] - q[1]) * (p[1] - q[1])) + ((p[2] - q[2]) * (p[2] - q[2])) <= n * n})

\* The part of the fitted rectangle that is removed (lines 676-677).
FinalRegion2Remove_NotClipped(EnlargedRectangularRegion2Remove, TotalRegion) ==
  EnlargedRectangularRegion2Remove

FinalRegion2Remove(EnlargedRectangularRegion2Remove, TotalRegion) ==
  getIntersectingROI(<<EnlargedRectangularRegion2Remove, TotalRegion>>)

\* subtractROI from line 692 on: the cropped ROI, a ShapeRoi, is cleaned up.
subtractROI_Clean(croppedROI, cleaned) ==
  [croppedROI |-> croppedROI, roi |-> cleaned.roi, rm |-> cleaned.rm, err |-> cleaned.err]

subtractROI_From(croppedROI, manager) ==
  subtractROI_Clean(croppedROI, cleanUpROI(croppedROI, TRUE, manager))

\* subtractROI(TotalRegion, Region2Remove, img, growth) with the ROI Manager
\* holding `manager`: [croppedROI, roi, rm, err].
subtractROI(TotalRegion, Region2Remove, growth, manager) ==
  subtractROI_From(
    Xor(TotalRegion,
        FinalRegion2Remove(FitRectangle(enlarge(Region2Remove, growth)), TotalRegion)),
    manager)

\* -------------------------------------------------- selectNonBlackRegion
\* selectNonBlackRegion from the conversion of the threshold to a ROI on.
selectNonBlackRegion_From(nonBlackROI, manager) ==
  IF nonBlackROI = {}
  THEN [roi |-> <<>>, rm |-> manager, err |-> "AttributeError"]
  ELSE IF IsComposite(nonBlackROI)
       THEN cleanUpROI(nonBlackROI, TRUE, manager)
       ELSE [roi |-> <<nonBlackROI>>, rm |-> manager, err |-> ""]

\* selectNonBlackRegion(img) with cleanUpSelection = True: [roi, rm, err].
selectNonBlackRegion(im, manager) == selectNonBlackRegion_From(AboveMin(im), manager)

\* selectNonBlackRegion(img, False): the raw selection, None when no pixel
\* lies inside the threshold.
selectNonBlackRegion_Raw(im) == IF AboveMin(im) = {} THEN <<>> ELSE <<AboveMin(im)>>

\* selectNonBlackRegion(img, cleanUpSelection): [roi, rm, err].
selectNonBlackRegion_Flag(im, cleanUpSelection, manager) ==
  IF cleanUpSelection
  THEN selectNonBlackRegion(im, manager)
  ELSE [roi |-> selectNonBlackRegion_Raw(im), rm |-> manager, err |-> ""]

\* ---------------------------------------------------------------- getDC_JI
\* A float quotient num / den, or float('nan').
NaN == [nan |-> TRUE, num |-> 0, den |-> 0]

Quotient(num, den) == [nan |-> FALSE, num |-> num, den |-> den]

\* segIntersect, segUnion and totSegArea of lines 1432-1476.
segIntersect(ROI1, ROI2) ==
  IF ROI1 = <<>> \/ ROI2 = <<>> THEN 0
  ELSE npoints(getIntersectingROI(<<ROI1[1], ROI2[1]>>))

segUnion(ROI1, ROI2) ==
  IF ROI1 = <<>> /\ ROI2 = <<>> THEN 0
  ELSE IF ROI1 = <<>> THEN npoints(ROI2[1])
  ELSE IF ROI2 = <<>> THEN npoints(ROI1[1])
  ELSE npoints(combineROIs(<<ROI1[1], ROI2[1]>>))

totSegArea_Union(ROI1, ROI2) ==
  IF ROI1 = <<>> /\ ROI2 = <<>> THEN 0
  ELSE IF ROI1 = <<>> THEN npoints(ROI2[1])
  ELSE IF ROI2 = <<>> THEN npoints(ROI1[1])
  ELSE npoints(combineROIs(<<ROI1[1], ROI2[1]>>))

totSegArea(ROI1, ROI2) ==
  IF ROI1 = <<>> /\ ROI2 = <<>> THEN 0
  ELSE IF ROI1 = <<>> THEN npoints(ROI2[1])
  ELSE IF ROI2 = <<>> THEN npoints(ROI1[1])
  ELSE npoints(ROI1[1]) + npoints(ROI2[1])

\* Lines 1478-1499: the Jaccard index and the Dice coefficient.
JI(ROI1, ROI2) ==
  IF segUnion(ROI1, ROI2) > 0
  THEN Quotient(segIntersect(ROI1, ROI2), segUnion(ROI1, ROI2))
  ELSE NaN

DC(ROI1, ROI2) ==
  IF totSegArea(ROI1, ROI2) > 0
  THEN Quotient(2 * segIntersect(ROI1, ROI2), totSegArea(ROI1, ROI2))
  ELSE NaN

getDC_JI_From(ROI1, ROI2) == [DC |-> DC(ROI1, ROI2), JI |-> JI(ROI1, ROI2)]

\* getDC_JI(seg1, seg2) with compareForeground = True.
getDC_JI(seg1, seg2) ==
  getDC_JI_From(selectNonBlackRegion_Raw(seg1), selectNonBlackRegion_Raw(seg2))

\* ROI.getInverse(seg): the pixels of the image outside the ROI.
getInverse(ROI, seg) == Xor(ROI, Canvas(seg))

\* Lines 1417-1424: the blank area of a segmentation.  None has no
\* getInverse, and the except clause takes window2compare instead.
totBlankROI_Empty(ROI, seg, window2compare) ==
  IF ROI = <<>> THEN <<{}>> ELSE <<getInverse(ROI[1], seg)>>

totBlankROI(ROI, seg, window2compare) ==
  IF ROI = <<>> THEN window2compare ELSE <<getInverse(ROI[1], seg)>>

\* Lines 1428-1429: the blank area within the window.  ShapeRoi(None) raises.
BlankInWindow(totBlank, window2compare) ==
  IF totBlank = <<>> \/ window2compare = <<>>
  THEN [roi |-> <<>>, err |-> "Error"]
  ELSE getIntersectingROI_Call(<<totBlank[1], window2compare[1]>>)

\* getDC_JI(seg1, seg2, False, window2compare): [DC, JI, err] and, as
\* history, the two ROIs that reach line 1433.
getDC_JI_Background_From(R1, R2) ==
  IF R1.err # "" \/ R2.err # ""
  THEN [DC |-> NaN, JI |-> NaN, ROI1 |-> <<>>, ROI2 |-> <<>>, err |-> "Error"]
  ELSE [DC |-> DC(R1.roi, R2.roi), JI |-> JI(R1.roi, R2.roi),
        ROI1 |-> R1.roi, ROI2 |-> R2.roi, err |-> ""]

getDC_JI_Background(seg1, seg2, window2compare) ==
  getDC_JI_Background_From(
    BlankInWindow(totBlankROI(selectNonBlackRegion_Raw(seg1), seg1, window2compare),
                  window2compare),
    BlankInWindow(totBlankROI(selectNonBlackRegion_Raw(seg2), seg2, window2compare),
                  window2compare))

\* ------------------------------------------------------ segmentation2ROIs
\* seg is the region of the 255-valued pixels of a 0/255 mask of the canvas
\* `canvas`.  The threshold [min + 1, max] keeps them, unless the mask is
\* uniform (min = max), when nothing lies inside the threshold.
Thresholded(seg, canvas) == IF seg = canvas THEN {} ELSE seg

\* The particles "Analyze Particles... add" puts in the ROI Manager.
Particles(seg) == Components(seg, 8)

segmentation2ROIs_NoClear(seg, canvas, manager) ==
  getOpenROIs(manager \o Particles(Thresholded(seg, canvas)))

\* segmentation2ROIs(seg): the ROIs found (None, one ROI or a list); the ROI
\* Manager is cleared before the particles are added and again afterwards.
segmentation2ROIs(seg, canvas, manager) ==
  getOpenROIs(clearROIs(manager) \o Particles(Thresholded(seg, canvas)))

\* The ROI Manager when segmentation2ROIs returns: cleared at line 587,
\* filled with the particles, and cleared again at line 602.
segmentation2ROIs_Manager_OneClear(seg, canvas, manager) ==
  clearROIs(manager) \o Particles(Thresholded(seg, canvas))

segmentation2ROIs_Manager(seg, canvas, manager) ==
  clearROIs(clearROIs(manager) \o Particles(Thresholded(seg, canvas)))

\* ---------------------------------------------------------- the tiler
\* makeRotatedR0I(topLeftPoint, width, rotation) for rotation = 0.
makeRotatedR0I(topLeftPoint, width) == Square(topLeftPoint[1], topLeftPoint[2], width)

\* getTopLeftPoint(ROI): the smallest x of the outline and the smallest y
\* among the outline points with that x.
getTopLeftPoint(ROI) ==
  <<MinX(ROI), MinOf({r[1] : r \in {q \in ROI : q[2] = MinX(ROI)}})>>

\* getTopLeftPoint from line 574 on: floatPoly = [xpoints, ypoints] lists the
\* outline points in the order of ROI.getFloatPolygon().
topLeftXVal(xPoints) == MinOf(Range(xPoints))

smallXIndicies(xPoints) ==
  {i \in 1 .. Len(xPoints) : xPoints[i] = topLeftXVal(xPoints)}

getTopLeftPoint_FirstSmallX(floatPoly) ==
  <<topLeftXVal(floatPoly.xpoints),
    floatPoly.ypoints[MinOf(smallXIndicies(floatPoly.xpoints))]>>

getTopLeftPoint_From(floatPoly) ==
  <<topLeftXVal(floatPoly.xpoints),
    MinOf({floatPoly.ypoints[i] : i \in smallXIndicies(floatPoly.xpoints)})>>

\* isContained(containedROI, containingROI): the bounding areas of the
\* intersection and of containedROI differ by less than 0.01 of the latter.
WithinTolerance_Loose(ROIUnionArea, containedROIArea) ==
  Abs(ROIUnionArea - containedROIArea) < containedROIArea

WithinTolerance(ROIUnionArea, containedROIArea) ==
  100 * Abs(ROIUnionArea - containedROIArea) < containedROIArea

BoundsArea(R) == getFloatWidth(R) * getFloatHeight(R)

isContained(containedROI, containingROI) ==
  WithinTolerance(BoundsArea(getIntersectingROI(<<containedROI, containingROI>>)),
                  BoundsArea(containedROI))

\* The square that cropNewField clears: field4Cropping of width
\* ceil(cropWidth/2.0) at topLeftPoint, enlarged by floor(cropWidth/2.0) on
\* every side and fitted to a rectangle.
enlargedField2Crop_NotEnlarged(topLeftPoint, cropWidth) ==
  Square(topLeftPoint[1], topLeftPoint[2], ceil2(cropWidth))

enlargedField2Crop(topLeftPoint, cropWidth) ==
  Square(topLeftPoint[1] - floor2(cropWidth), topLeftPoint[2] - floor2(cropWidth),
         ceil2(cropWidth) + 2 * floor2(cropWidth))

\* The crop width the loop passes to cropNewField.
cropWidthFor_Same(accepted, fs, fo) == fs + fo

cropWidthFor_AcceptedOnly(accepted, fs, fo) == IF accepted THEN fs + fo ELSE 0

cropWidthFor(accepted, fs, fo) == IF accepted THEN fs + fo ELSE fo

\* 'Field-{}'.format(iFov): the name is modelled by its number.
FieldName_FromZero(n) == <<"Field-", n - 1>>

FieldName(n) == <<"Field-", n>>

\* int(fieldName[6:]) in Separate_Image_Into_Fields_: the number of a field.
Field_Number(fieldName) == fieldName[2]

\* Lines 396-399 of cropNewField: a list of ROIs is combined into one.
combineIfList(found) == IF Len(found) > 1 THEN <<combineROIs(found)>> ELSE found

\* cropNewField(topLeftPoint, cropWidth) on the mask `mask`, the ROI Manager
\* holding `manager`: the new mask and the new self.imgROI.
cropNewField_Cut(cut, canvas, manager) ==
  [mask |-> cut, roi |-> combineIfList(segmentation2ROIs(cut, canvas, manager)),
   rm |-> segmentation2ROIs_Manager(cut, canvas, manager)]

cropNewField(mask, canvas, manager, topLeftPoint, cropWidth) ==
  cropNewField_Cut(Minus(mask, enlargedField2Crop(topLeftPoint, cropWidth)), canvas,
                   manager)

\* ------------------------------------------------------------ input images
\* The blank triangles a rotation leaves in the four corners of the canvas.
CornerPad(w, h, k) ==
  RunsOf({p \in (0 .. (w - 1)) \X (0 .. (h - 1)) :
            \/ p[1] + p[2] < k
            \/ (w - 1 - p[1]) + p[2] < k
            \/ p[1] + (h - 1 - p[2]) < k
            \/ (w - 1 - p[1]) + (h - 1 - p[2]) < k})

MakeImg(w, h, dark, lo) == [w |-> w, h |-> h, dark |-> dark, lo |-> lo, hi |-> 2]

\* The images of the model: a rotated scan with blank (0) corner triangles,
\* a scan filling the canvas whose darkest pixel (1) is the top left corner
\* or an interior pixel, and a scan with a blank column cutting off a sliver.
ImagesOf(w, h) ==
  {MakeImg(w, h, CornerPad(w, h, k), 0) :
     k \in {k \in 1 .. MaxPad : Cardinality(Pixels(CornerPad(w, h, k))) < w * h}}
  \cup (IF w * h > 1 THEN {MakeImg(w, h, {<<0, 0, 0>>}, 1)} ELSE {})
  \cup (IF w >= 3 /\ h >= 3 THEN {MakeImg(w, h, {<<1, 1, 1>>}, 1)} ELSE {})
  \cup (IF w >= 4 THEN {MakeImg(w, h, {<<j, 1, 1>> : j \in 0 .. (h - 1)}, 0)} ELSE {})

Images == UNION {ImagesOf(w, h) : w \in 1 .. MaxDim, h \in 1 .. MaxDim}

\* What the ROI Manager may hold when gridOfFields is called.
StrayROI == {<<0, 0, 0>>}

PriorManagers == {<<>>, <<StrayROI>>, <<StrayROI, {<<0, 1, 1>>, <<1, 1, 1>>}>>}

RightAngles == {90 * k : k \in (0 - MaxTurns) .. MaxTurns}

NoLast == [anchor |-> <<0, 0>>, accepted |-> FALSE, mask |-> {}, area |-> 0, rm |-> <<>>]

NoBoundary == [x |-> 0, y |-> 0, width |-> 0, rotation |-> 0]

NoFirst ==
  [pc |-> "", err |-> "", ROIs |-> <<>>, fieldBoundary |-> NoBoundary, rm |-> <<>>,
   rotationDegrees |-> 0, rotation |-> 0]

Init ==
  /\ pc = "Seeding"
  /\ err = ""
  /\ img \in Images
  /\ field_size \in 1 .. MaxField
  /\ field_overlap \in 0 .. MaxOverlap
  /\ rotationDegrees \in RightAngles
  /\ rotation = 0
  /\ imgROI = <<>>
  /\ imgSegMask = {}
  /\ ROIs = <<>>
  /\ iFov = 1
  /\ imgROIArea = 0
  /\ rm \in PriorManagers
  /\ origROI = <<>>
  /\ last = NoLast
  /\ nIter = 0
  /\ run = 1
  /\ fieldBoundary = NoBoundary
  /\ first = NoFirst
  /\ called = ""
  /\ args = <<>>
  /\ result = <<>>

fullFieldWidth == field_size + (2 * field_overlap)

fieldPlusOverlap == field_size + field_overlap

fieldArea == fullFieldWidth * fullFieldWidth

\* gridOfFields.__init__ up to the loop: the rotation is stored, the relevant
\* region selected, the mask made, the list of fields and the counter set up.
Seeding ==
  /\ pc = "Seeding"
  /\ \E sel \in {selectNonBlackRegion(img, rm)} :
         /\ rotation' = PyMod(rotationDegrees, -90)
         /\ rm' = sel.rm
         /\ imgROI' = sel.roi
         /\ origROI' = sel.roi
         /\ IF sel.err # ""
            THEN /\ pc' = "Error"
                 /\ err' = sel.err
                 /\ UNCHANGED <<imgSegMask, imgROIArea>>
            ELSE /\ pc' = "Iterating"
                 /\ err' = ""
                 /\ imgSegMask' = sel.roi[1]
                 /\ imgROIArea' = getFloatWidth(sel.roi[1]) * getFloatHeight(sel.roi[1])
  /\ ROIs' = <<>>
  /\ iFov' = 1
  /\ UNCHANGED <<img, field_size, field_overlap, rotationDegrees, last, nIter,
                 run, fieldBoundary, first, called, args, result>>

\* One pass through the body of the while loop.
Iterate ==
  /\ pc = "Iterating"
  /\ imgROIArea > fieldArea
  /\ \E topLPt \in {getTopLeftPoint(imgROI[1])} :
     \E accepted \in {isContained(makeRotatedR0I(topLPt, fullFieldWidth), imgROI[1])} :
     \E crop \in {cropNewField(imgSegMask, Canvas(img), rm, topLPt,
                               cropWidthFor(accepted, field_size, field_overlap))} :
         /\ ROIs' = IF accepted
                    THEN Append(ROIs, [name |-> FieldName(iFov), x |-> topLPt[1],
                                       y |-> topLPt[2], width |-> fullFieldWidth,
                                       rotation |-> rotation])
                    ELSE ROIs
         /\ iFov' = IF accepted THEN iFov + 1 ELSE iFov
         /\ imgSegMask' = crop.mask
         /\ imgROI' = crop.roi
         /\ rm' = crop.rm
         /\ last' = [anchor |-> topLPt, accepted |-> accepted, mask |-> imgSegMask,
                     area |-> imgROIArea, rm |-> rm]
         /\ IF crop.roi = <<>>
            THEN /\ pc' = "Error"
                 /\ err' = "AttributeError"
                 /\ UNCHANGED imgROIArea
            ELSE /\ imgROIArea' = getFloatWidth(crop.roi[1]) * getFloatHeight(crop.roi[1])
                 /\ UNCHANGED <<pc, err>>
  /\ nIter' = IF nIter < IterCap THEN nIter + 1 ELSE nIter
  /\ UNCHANGED <<img, field_size, field_overlap, rotationDegrees, rotation,
                 origROI, run, fieldBoundary, first, called, args, result>>

\* The loop test fails: the mask is dropped and the field boundary built.
Finish ==
  /\ pc = "Iterating"
  /\ ~(imgROIArea > fieldArea)
  /\ IF ROIs = <<>>
     THEN /\ pc' = "Error"
          /\ err' = "IndexError"
          /\ UNCHANGED fieldBoundary
     ELSE /\ pc' = "Done"
          /\ err' = ""
          /\ fieldBoundary' =
               [x |-> (ROIs[1].width - field_size) \div 2,
                y |-> (ROIs[1].width - field_size) \div 2,
                width |-> field_size, rotation |-> rotation]
  /\ UNCHANGED <<img, field_size, field_overlap, rotationDegrees, rotation,
                 imgROI, imgSegMask, ROIs, iFov, imgROIArea, rm, origROI, last,
                 nIter, run, first, called, args, result>>

\* gridOfFields is called a second time on the same image with the same
\* arguments; the ROI Manager holds what the first call left there and what
\* the caller may have added since.
Restart ==
  /\ run = 1
  /\ pc \in {"Done", "Error"}
  /\ run' = 2
  /\ \E left \in {rm, Append(rm, StrayROI)} :
         /\ rm' = left
         /\ first' = [pc |-> pc, err |-> err, ROIs |-> ROIs,
                      fieldBoundary |-> fieldBoundary, rm |-> left,
                      rotationDegrees |-> rotationDegrees, rotation |-> rotation]
  /\ pc' = "Seeding"
  /\ err' = ""
  /\ rotation' = 0
  /\ imgROI' = <<>>
  /\ imgSegMask' = {}
  /\ ROIs' = <<>>
  /\ iFov' = 1
  /\ imgROIArea' = 0
  /\ origROI' = <<>>
  /\ last' = NoLast
  /\ nIter' = 0
  /\ fieldBoundary' = NoBoundary
  /\ UNCHANGED <<img, field_size, field_overlap, rotationDegrees, called, args,
                 result>>

Next == Seeding \/ Iterate \/ Finish \/ Restart

Spec == Init /\ [][Next]_vars

\* ------------------------------------------------- the 500 x 500 canvas
\* A 500 x 500 pixel scan whose relevant region is the whole canvas, tiled
\* with field_size = 100 and field_overlap = 10.  Every coordinate of that
\* run is a multiple of 5 pixels, so the model counts in units of 5 pixels:
\* a 100 x 100 canvas, field_size 20, field_overlap 2.  The darkest unit lies
\* inside the scan, where cleanUpROI fills it in.
InitC5 ==
  /\ pc = "Seeding"
  /\ err = ""
  /\ img = MakeImg(500 \div 5, 500 \div 5, {<<1, 1, 1>>}, 1)
  /\ field_size = 100 \div 5
  /\ field_overlap = 10 \div 5
  /\ rotationDegrees = 0
  /\ rotation = 0
  /\ imgROI = <<>>
  /\ imgSegMask = {}
  /\ ROIs = <<>>
  /\ iFov = 1
  /\ imgROIArea = 0
  /\ rm = <<>>
  /\ origROI = <<>>
  /\ last = NoLast
  /\ nIter = 0
  /\ run = 1
  /\ fieldBoundary = NoBoundary
  /\ first = NoFirst
  /\ called = ""
  /\ args = <<>>
  /\ result = <<>>

NextC5 == Seeding \/ Iterate \/ Finish

SpecC5 == InitC5 /\ [][NextC5]_vars

\* ------------------------------------------------- the stored rotation
\* Line 228 alone, for every whole number of degrees up to MaxRot either way.
InitRot ==
  /\ pc = "Seeding"
  /\ err = ""
  /\ img = MakeImg(1, 1, {}, 0)
  /\ field_size = 1
  /\ field_overlap = 0
  /\ rotationDegrees \in (0 - MaxRot) .. MaxRot
  /\ rotation = 0
  /\ imgROI = <<>>
  /\ imgSegMask = {}
  /\ ROIs = <<>>
  /\ iFov = 1
  /\ imgROIArea = 0
  /\ rm = <<>>
  /\ origROI = <<>>
  /\ last = NoLast
  /\ nIter = 0
  /\ run = 1
  /\ fieldBoundary = NoBoundary
  /\ first = NoFirst
  /\ called = ""
  /\ args = <<>>
  /\ result = <<>>

StoreRotation ==
  /\ pc = "Seeding"
  /\ rotation' = PyMod(rotationDegrees, -90)
  /\ pc' = "Rotated"
  /\ UNCHANGED <<err, img, field_size, field_overlap, rotationDegrees, imgROI,
                 imgSegMask, ROIs, iFov, imgROIArea, rm, origROI, last, nIter, run,
                 fieldBoundary, first, called, args, result>>

\* gridOfFields is called again, this time with the rotation the first call
\* stored as its rotationDegrees.
RunNormalized ==
  /\ pc = "Rotated"
  /\ run = 1
  /\ run' = 2
  /\ first' = [NoFirst EXCEPT !.pc = pc, !.rotationDegrees = rotationDegrees,
                              !.rotation = rotation]
  /\ rotationDegrees' = rotation
  /\ rotation' = 0
  /\ pc' = "Seeding"
  /\ UNCHANGED <<err, img, field_size, field_overlap, imgROI, imgSegMask, ROIs, iFov,
                 imgROIArea, rm, origROI, last, nIter, fieldBoundary, called, args,
                 result>>

NextRot == StoreRotation \/ RunNormalized

SpecRot == InitRot /\ [][NextRot]_vars

\* ------------------------------------------------------------------ Stats
\* Stats.ttest(m1, m2, v1, v2, n1, n2) = (m1 - m2) / sqrt(v1**2/n1 + v2**2/n2)
\* as the sign of the quotient and its square
\* (m1 - m2)^2 * n1 * n2 / (v1^2 * n2 + v2^2 * n1); the square root of 0
\* in the denominator raises ZeroDivisionError.
Sign(n) == IF n > 0 THEN 1 ELSE IF n < 0 THEN 0 - 1 ELSE 0

ttest(m1, m2, v1, v2, n1, n2) ==
  IF (v1 * v1 * n2) + (v2 * v2 * n1) = 0
  THEN [err |-> "ZeroDivisionError", sign |-> 0, squareNum |-> 0, squareDen |-> 1]
  ELSE [err |-> "", sign |-> Sign(m1 - m2),
        squareNum |-> (m1 - m2) * (m1 - m2) * n1 * n2,
        squareDen |-> (v1 * v1 * n2) + (v2 * v2 * n1)]

\* ------------------------------------------- library functions on their own
\* No gridOfFields object exists: a library function is applied directly.
NoGrid ==
  /\ pc = ""
  /\ err = ""
  /\ img = MakeImg(1, 1, {}, 0)
  /\ field_size = 1
  /\ field_overlap = 0
  /\ rotationDegrees = 0
  /\ rotation = 0
  /\ imgROI = <<>>
  /\ imgSegMask = {}
  /\ ROIs = <<>>
  /\ iFov = 1
  /\ imgROIArea = 0
  /\ origROI = <<>>
  /\ last = NoLast
  /\ nIter = 0
  /\ run = 1
  /\ fieldBoundary = NoBoundary
  /\ first = NoFirst

\* The rectangle [xa, xb] x [ya, yb], and the rectangles that fit in a
\* MaxSide x MaxSide canvas.
Rect(xa, xb, ya, yb) == {<<y, xa, xb>> : y \in ya .. yb}

Rects ==
  {Rect(q[1], q[2], q[3], q[4]) :
     q \in {c \in (0 .. MaxSide - 1) \X (0 .. MaxSide - 1)
                   \X (0 .. MaxSide - 1) \X (0 .. MaxSide - 1) :
              c[1] <= c[2] /\ c[3] <= c[4]}}

\* A single row of n pixels starting at x = 0.
RowOf(n) == {<<0, 0, n - 1>>}


\* isContained is applied to a rectangle and either a rectangle or the canvas
\* less a rectangle, or to a row of pixels and a shorter row.
ContainedInputs ==
  (Rects \X (Rects \cup {Minus(Rect(0, MaxSide - 1, 0, MaxSide - 1), B) : B \in Rects}))
  \cup {<<RowOf(q[1]), RowOf(q[2])>> :
          q \in {c \in (1 .. MaxRun) \X (1 .. MaxRun) : c[2] <= c[1]}}

InitContained ==
  /\ NoGrid
  /\ rm = <<>>
  /\ called = ""
  /\ args \in ContainedInputs
  /\ result = <<>>

Call_isContained ==
  /\ called = ""
  /\ called' = "isContained"
  /\ result' = isContained(args[1], args[2])
  /\ UNCHANGED <<grid, rm, args>>

NextContained == Call_isContained

SpecContained == InitContained /\ [][NextContained]_vars

\* Regions with a notch, a hole or two parts: a rectangle less a rectangle.
Notched == {Minus(q[1], q[2]) : q \in Rects \X Rects} \ {{}}

\* Region A with the rectangle [0, w) x [0, h) put to the right of the canvas.
Beside(A, w, h) ==
  A \cup (IF w = 0 \/ h = 0 THEN {} ELSE Rect(MaxSide + 1, MaxSide + w, 0, h - 1))

\* cleanUpROI is applied to a selection [ROI, composite]; a selection of
\* several outlines is always a composite one.
CleanUpInputs ==
  {s \in [ROI : {Beside(A, q[1], q[2]) : A \in Notched, q \in (0 .. MaxSide) \X (0 .. 1)},
          composite : BOOLEAN] :
     s.composite \/ Len(SplitROI(s.ROI)) = 1}

InitCleanUp ==
  /\ NoGrid
  /\ rm \in PriorManagers
  /\ called = ""
  /\ args \in CleanUpInputs
  /\ result = <<>>

Call_cleanUpROI ==
  /\ called = ""
  /\ called' = "cleanUpROI"
  /\ \E cleaned \in {cleanUpROI(args.ROI, args.composite, rm)} :
         /\ result' = [roi |-> cleaned.roi, err |-> cleaned.err, before |-> rm]
         /\ rm' = cleaned.rm
  /\ UNCHANGED <<grid, args>>

NextCleanUp == Call_cleanUpROI

SpecCleanUp == InitCleanUp /\ [][NextCleanUp]_vars

\* subtractROI is applied to a rectangle, a region to remove (a rectangle or a
\* rectangle less its top left corner) and a growth.
Cornerless ==
  {Minus(Rect(0, q[1], 0, q[2]), Rect(0, q[3], 0, q[4])) :
     q \in (0 .. MaxSide - 1) \X (0 .. MaxSide - 1) \X (0 .. MaxSide - 1) \X (0 .. MaxSide - 1)}
  \ {{}}

SubtractInputs ==
  [TotalRegion : Rects, Region2Remove : Rects \cup Cornerless, growth : 0 .. MaxGrow]

InitSubtract ==
  /\ NoGrid
  /\ rm = <<>>
  /\ called = ""
  /\ args \in SubtractInputs
  /\ result = <<>>

Call_subtractROI ==
  /\ called = ""
  /\ called' = "subtractROI"
  /\ \E cropped \in {subtractROI(args.TotalRegion, args.Region2Remove, args.growth, rm)} :
         /\ result' = [croppedROI |-> cropped.croppedROI, roi |-> cropped.roi,
                       err |-> cropped.err]
         /\ rm' = cropped.rm
  /\ UNCHANGED <<grid, args>>

NextSubtract == Call_subtractROI

SpecSubtract == InitSubtract /\ [][NextSubtract]_vars

\* combineROIs and getIntersectingROI are applied to a list of no, one or two
\* rectangles.
ListInputs ==
  {<<>>} \cup {<<A>> : A \in Rects} \cup {<<q[1], q[2]>> : q \in Rects \X Rects}

InitLists ==
  /\ NoGrid
  /\ rm = <<>>
  /\ called = ""
  /\ args \in ListInputs
  /\ result = <<>>

Call_combineROIs ==
  /\ called = ""
  /\ called' = "combineROIs"
  /\ result' = combineROIs_Call(args)
  /\ UNCHANGED <<grid, rm, args>>

Call_getIntersectingROI ==
  /\ called = ""
  /\ called' = "getIntersectingROI"
  /\ result' = getIntersectingROI_Call(args)
  /\ UNCHANGED <<grid, rm, args>>

NextLists == Call_combineROIs \/ Call_getIntersectingROI

SpecLists == InitLists /\ [][NextLists]_vars

\* The segmentation mask of the MaxSide x MaxSide canvas whose pixels of
\* region F are 255 and whose other pixels are 0.
SegMask(F) ==
  [w |-> MaxSide, h |-> MaxSide,
   dark |-> ComplementRuns(F, 0, MaxSide - 1, 0, MaxSide - 1), lo |-> 0, hi |-> 255]

\* getDC_JI is applied to two masks: blank, a rectangle, or a rectangle less
\* its top left corner.
SegMasks == {SegMask(F) : F \in {{}} \cup Rects \cup Cornerless}

InitCompare ==
  /\ NoGrid
  /\ rm = <<>>
  /\ called = ""
  /\ args \in SegMasks \X SegMasks
  /\ result = <<>>

Call_getDC_JI ==
  /\ called = ""
  /\ called' = "getDC_JI"
  /\ result' = getDC_JI(args[1], args[2])
  /\ UNCHANGED <<grid, rm, args>>

NextCompare == Call_getDC_JI

SpecCompare == InitCompare /\ [][NextCompare]_vars

\* getDC_JI compares the background of two masks (blank, or a rectangle of
\* foreground) within a window: None, or a square on the diagonal.
Windows ==
  {<<>>} \cup {<<Rect(q[1], q[2], q[1], q[2])>> :
                 q \in {c \in (0 .. MaxSide - 1) \X (0 .. MaxSide - 1) : c[1] <= c[2]}}

InitBackground ==
  /\ NoGrid
  /\ rm = <<>>
  /\ called = ""
  /\ args \in [seg1 : {SegMask(F) : F \in {{}} \cup Rects},
               seg2 : {SegMask(F) : F \in {{}} \cup Rects},
               window2compare : Windows]
  /\ result = <<>>

Call_getDC_JI_Background ==
  /\ called = ""
  /\ called' = "getDC_JI"
  /\ result' = getDC_JI_Background(args.seg1, args.seg2, args.window2compare)
  /\ UNCHANGED <<grid, rm, args>>

NextBackground == Call_getDC_JI_Background

SpecBackground == InitBackground /\ [][NextBackground]_vars

\* selectNonBlackRegion is applied to an image of the model or to a uniform
\* image, with or without the cleanup.
InitSelect ==
  /\ NoGrid
  /\ rm \in PriorManagers
  /\ called = ""
  /\ args \in [img : Images \cup {MakeImg(MaxDim, MaxDim, {}, 0)},
              cleanUpSelection : BOOLEAN]
  /\ result = <<>>

Call_selectNonBlackRegion ==
  /\ called = ""
  /\ called' = "selectNonBlackRegion"
  /\ \E sel \in {selectNonBlackRegion_Flag(args.img, args.cleanUpSelection, rm)} :
         /\ result' = [roi |-> sel.roi, err |-> sel.err]
         /\ rm' = sel.rm
  /\ UNCHANGED <<grid, args>>

NextSelect == Call_selectNonBlackRegion

SpecSelect == InitSelect /\ [][NextSelect]_vars

\* ttest is applied to two sample means, two sample variances and two sample
\* sizes.
InitTTest ==
  /\ NoGrid
  /\ rm = <<>>
  /\ called = ""
  /\ args \in [m1 : 0 .. MaxStat, m2 : 0 .. MaxStat, v1 : 0 .. MaxStat,
              v2 : 0 .. MaxStat, n1 : 1 .. MaxStat, n2 : 1 .. MaxStat]
  /\ result = <<>>

Call_ttest ==
  /\ called = ""
  /\ called' = "ttest"
  /\ result' = ttest(args.m1, args.m2, args.v1, args.v2, args.n1, args.n2)
  /\ UNCHANGED <<grid, rm, args>>

NextTTest == Call_ttest

SpecTTest == InitTTest /\ [][NextTTest]_vars

\* saveROIs, openROIFile or cleanUpROI is called while the ROI Manager holds
\* no, one or two ROIs: saveROIs saves the selection, openROIFile opens a
\* file that holds its parts, cleanUpROI cleans it up.
InitManager ==
  /\ NoGrid
  /\ rm \in PriorManagers
  /\ called = ""
  /\ args \in CleanUpInputs
  /\ result = <<>>

Call_saveROIs ==
  /\ called = ""
  /\ called' = "saveROIs"
  /\ result' = [roi |-> <<>>, err |-> "", before |-> rm]
  /\ rm' = saveROIs(<<args.ROI>>, rm)
  /\ UNCHANGED <<grid, args>>

Call_openROIFile ==
  /\ called = ""
  /\ called' = "openROIFile"
  /\ \E opened \in {openROIFile(SplitROI(args.ROI), rm)} :
         /\ result' = [roi |-> opened.roi, err |-> "", before |-> rm]
         /\ rm' = opened.rm
  /\ UNCHANGED <<grid, args>>

NextManager == Call_saveROIs \/ Call_openROIFile \/ Call_cleanUpROI

SpecManager == InitManager /\ [][NextManager]_vars

\* getTopLeftPoint is applied to an outline of distinct points, and then to
\* the same points listed in another order.
Orders(n) == {f \in [1 .. n -> 1 .. n] : \A i, j \in 1 .. n : f[i] = f[j] => i = j}

Outlines ==
  UNION {{pts \in [1 .. n -> (0 .. MaxCoord - 1) \X (0 .. MaxCoord)] :
            \A i, j \in 1 .. n : pts[i] = pts[j] => i = j} : n \in 1 .. MaxPts}

FloatPolygon(pts) ==
  [xpoints |-> [i \in 1 .. Len(pts) |-> pts[i][1]],
   ypoints |-> [i \in 1 .. Len(pts) |-> pts[i][2]]]

Reordered(pts, f) == [i \in 1 .. Len(pts) |-> pts[f[i]]]

InitAnchor ==
  /\ NoGrid
  /\ rm = <<>>
  /\ called = ""
  /\ \E pts \in Outlines : \E f \in Orders(Len(pts)) :
         args = <<pts, Reordered(pts, f)>>
  /\ result = <<>>

Call_getTopLeftPoint ==
  /\ called = ""
  /\ called' = "getTopLeftPoint"
  /\ result' = <<getTopLeftPoint_From(FloatPolygon(args[1]))>>
  /\ UNCHANGED <<grid, rm, args>>

Call_getTopLeftPoint_Reordered ==
  /\ called = "getTopLeftPoint"
  /\ called' = "getTopLeftPoint twice"
  /\ result' = Append(result, getTopLeftPoint_From(FloatPolygon(args[2])))
  /\ UNCHANGED <<grid, rm, args>>

NextAnchor == Call_getTopLeftPoint \/ Call_getTopLeftPoint_Reordered

SpecAnchor == InitAnchor /\ [][NextAnchor]_vars

\* ------------------------------------------- Separate_Image_Into_Fields
\* A file of the input directory is [prefix, image, ext]: its name is
\* prefix + image + "." + ext.
DirFiles ==
  [prefix : {"", "RotationInDegrees_"}, image : {"img1", "img2"}, ext : {"txt", "tif"}]

\* is_file_type and has_search_phrase of findImgsInDir.
is_file_type(file, fileType) == file.ext = fileType

has_search_phrase(file, searchPhrase) == file.prefix = searchPhrase

\* The lists glob may yield for a set of files: one per order.
Listings(files) ==
  {l \in [1 .. Cardinality(files) -> files] :
     \A i, j \in 1 .. Cardinality(files) : l[i] = l[j] => i = j}

\* findImgsInDir(dirPath, fileType, searchPhrase): the files that pass, in
\* the order glob yields them; the path itself is returned when one file
\* passes, otherwise the list.
files2return(dirPath, fileType, searchPhrase) ==
  Listings({f \in dirPath : is_file_type(f, fileType) /\ has_search_phrase(f, searchPhrase)})

findImgsInDir(files) == [isList |-> Len(files) # 1, files |-> files]

\* regex.match(str(rotAngleTextFilePath)) for the pattern
\* '.*RotationInDegrees_(?P<Image_Name>.*)\.txt': no match (None, <<>>) in
\* '[]'; otherwise Image_Name comes from the last path of the string, the
\* leading '.*' being greedy.
RegexMatch(path) ==
  IF Len(path.files) = 0 THEN <<>>
  ELSE <<[Image_Name |-> path.files[Len(path.files)].image]>>

\* len(rotAngleTextFilePath): a path is a string that is not empty.
PyLen(path) == IF path.isList THEN Len(path.files) ELSE 1 + Len(path.files)

\* Lines 151-152.
Script_findImgsInDir ==
  /\ called = ""
  /\ called' = "Separate_Image_Into_Fields"
  /\ \E files \in files2return(args.inputDir, "txt", "RotationInDegrees_") :
       result' = [pc |-> "match", err |-> "", imgFileName |-> "", rotation |-> <<>>,
                  rotAngleTextFilePath |-> findImgsInDir(files)]
  /\ UNCHANGED <<grid, rm, args>>

\* Lines 156-162: matches.groupdict() on None raises AttributeError.
Script_match ==
  /\ called = "Separate_Image_Into_Fields"
  /\ result.pc = "match"
  /\ \E matches \in {RegexMatch(result.rotAngleTextFilePath)} :
       result' = IF matches = <<>>
                 THEN [result EXCEPT !.pc = "Error", !.err = "AttributeError"]
                 ELSE [result EXCEPT !.pc = "rotation",
                                     !.imgFileName = matches[1].Image_Name]
  /\ UNCHANGED <<grid, rm, called, args>>

\* Lines 166-181: rotation = 0 when the list is empty, and then the del of
\* line 181 finds no rotAngleTextFile; open() of a list raises TypeError;
\* otherwise the angle is read from the file.
Script_rotation ==
  /\ called = "Separate_Image_Into_Fields"
  /\ result.pc = "rotation"
  /\ result' =
       IF PyLen(result.rotAngleTextFilePath) = 0
       THEN [result EXCEPT !.pc = "Error", !.err = "NameError", !.rotation = <<0>>]
       ELSE IF result.rotAngleTextFilePath.isList
       THEN [result EXCEPT !.pc = "Error", !.err = "TypeError"]
       ELSE [result EXCEPT !.pc = "gridOfFields", !.rotation = <<args.angle>>]
  /\ UNCHANGED <<grid, rm, called, args>>

\* The script runs on an input directory holding any of the files, the
\* rotation files holding the angle `angle`.
InitScript ==
  /\ NoGrid
  /\ rm = <<>>
  /\ called = ""
  /\ args \in [inputDir : SUBSET DirFiles, angle : {0, 90}]
  /\ result = <<>>

NextScript == Script_findImgsInDir \/ Script_match \/ Script_rotation

SpecScript == InitScript /\ [][NextScript]_vars

\* ---------------------------------------------- Quantify_Reproducibility
\* The most relabeled fields the script finds.
MaxRelabeled == 2

\* A column name is the sequence of its parts between underscores:
\* 'Total_N_Cells' is <<"Total", "N", "Cells">>.
Suffixes ==
  {<<"Rater1">>, <<"Rater2">>, <<"Absolute", "Difference">>, <<"Percent", "Difference">>}

\* '{}_Rater1'.format(col) and the like.
Format(col, suffix) == col \o suffix

\* The number of leading parts the group '((?:Total_)?N_[^_]*)' takes in.
GroupLen(col) == IF Len(col) > 0 /\ col[1] = "Total" THEN 3 ELSE 2

\* re.match of line 185: <<group(1)>>, or <<>> when the name does not match
\* '^((?:Total_)?N_[^_]*)(?:_(?:Rater[12]|Absolute_Difference|Percent_Difference))?$'.
MatchNCellCol(col) ==
  IF /\ Len(col) >= GroupLen(col)
     /\ col[GroupLen(col) - 1] = "N"
     /\ \/ Len(col) = GroupLen(col)
        \/ SubSeq(col, GroupLen(col) + 1, Len(col)) \in Suffixes
  THEN <<SubSeq(col, 1, GroupLen(col))>>
  ELSE <<>>

\* nCellCols of line 185: the distinct groups of the names that match.
nCellCols(csvColNames) ==
  {MatchNCellCol(col)[1] : col \in {c \in csvColNames : MatchNCellCol(c) # <<>>}}

\* int() of a cell of a csv file.
PyInt(s) == CASE s = "0" -> 0 [] s = "1" -> 1 [] s = "2" -> 2

\* [0] * FoV2xsRated
Padding_None(n) == <<>>

Padding(n) == [i \in 1 .. n |-> 0]

\* A column of reproQuants as the loop over nCellCols finds it (lines 192-200).
ColumnBefore(reproQuants, key, n) ==
  IF key \in DOMAIN reproQuants THEN reproQuants[key] ELSE Padding(n)

\* The counts of lines 204-220 and the differences of lines 224-235.
RaterCount(quants, col) == IF col \in DOMAIN quants THEN PyInt(quants[col][1]) ELSE 0

AbsoluteDifference(r1, r2) == Abs(r1 - r2)

PercentDifference(r1, r2) ==
  IF r1 + r2 > 0 THEN Quotient(200 * AbsoluteDifference(r1, r2), r1 + r2) ELSE NaN

NewValue(key, col, orig, re) ==
  IF key = Format(col, <<"Rater1">>) THEN RaterCount(orig, col)
  ELSE IF key = Format(col, <<"Rater2">>) THEN RaterCount(re, col)
  ELSE IF key = Format(col, <<"Absolute", "Difference">>)
       THEN AbsoluteDifference(RaterCount(orig, col), RaterCount(re, col))
  ELSE PercentDifference(RaterCount(orig, col), RaterCount(re, col))

\* Lines 188-235: reproQuants after the loop over the columns `cols`.
AddCounts(reproQuants, cols, orig, re, n) ==
  [key \in DOMAIN reproQuants \cup {Format(c, s) : c \in cols, s \in Suffixes} |->
     IF \E c \in cols : \E s \in Suffixes : key = Format(c, s)
     THEN Append(ColumnBefore(reproQuants, key, n),
                 NewValue(key, CHOOSE c \in cols : \E s \in Suffixes : key = Format(c, s),
                          orig, re))
     ELSE reproQuants[key]]

\* Lines 154-178: the appends that do not depend on the cell types.
AddIndices(reproQuants, nFoV, fg, bg) ==
  [key \in DOMAIN reproQuants |->
     CASE key = <<"Field", "of", "View", "Number">> -> Append(reproQuants[key], nFoV)
       [] key = <<"Rater1">>        -> Append(reproQuants[key], "RA1")
       [] key = <<"DC-Nuclei">>     -> Append(reproQuants[key], fg.DC)
       [] key = <<"JI-Nuclei">>     -> Append(reproQuants[key], fg.JI)
       [] key = <<"DC-Not-Nuclei">> -> Append(reproQuants[key], bg.DC)
       [] key = <<"JI-Not-Nuclei">> -> Append(reproQuants[key], bg.JI)
       [] OTHER -> reproQuants[key]]

\* One completed pass of the loop body for a field whose files were found.
RateField(reproQuants, nFoV, field, fovBoundary, n) ==
  AddCounts(AddIndices(reproQuants, nFoV,
                       getDC_JI(field.origLabelSeg, field.reLabelSeg),
                       getDC_JI_Background(field.origLabelSeg, field.reLabelSeg,
                                           fovBoundary)),
            nCellCols(DOMAIN field.origLabelQuants \cup DOMAIN field.reLabelQuants
                        \cup DOMAIN reproQuants),
            field.origLabelQuants, field.reLabelQuants, n)

\* Line 242: reproQuants['Rater2'] = [reLabelRA] * FoV2xsRated
AddRater2(reproQuants, n) ==
  [key \in DOMAIN reproQuants \cup {<<"Rater2">>} |->
     IF key = <<"Rater2">> THEN [i \in 1 .. n |-> "RA2"] ELSE reproQuants[key]]

\* izip(*dataDict.values()) of dict2csv: the number of rows written.
RowsWritten(dataDict) == MinOf({Len(dataDict[key]) : key \in DOMAIN dataDict})

\* The quantification files of a field: one row, with the field number, a
\* density and any of the two cell counts.
CellCols == {<<"Total", "N", "Cells">>, <<"N", "NeuN">>}

QuantFiles(count) ==
  {[col \in S \cup {<<"Field", "of", "View", "Number">>,
                    <<"N", "NeuN", "Per", "um", "Squared">>} |-> <<count>>] :
     S \in SUBSET CellCols}

\* What the script finds for a relabeled field.
Fields ==
  [reLabelSegFile : BOOLEAN, origLabelSegFile : BOOLEAN,
   reLabelQuants : QuantFiles("2"), origLabelQuants : QuantFiles("1"),
   reLabelSeg : {SegMask({}), SegMask(RowOf(1))}, origLabelSeg : {SegMask(RowOf(1))}]

\* Lines 84-92.
Repro_Start ==
  /\ called = ""
  /\ called' = "Quantify_Reproducibility"
  /\ result' = [pc |-> "loop", err |-> "", f |-> 0, FoV2xsRated |-> 0,
                origLabelSegFile |-> FALSE, rows |-> 0,
                reproQuants |->
                  [key \in {<<"Rater1">>, <<"DC-Nuclei">>, <<"JI-Nuclei">>,
                            <<"DC-Not-Nuclei">>, <<"JI-Not-Nuclei">>,
                            <<"Field", "of", "View", "Number">>} |-> <<>>]]
  /\ UNCHANGED <<grid, rm, args>>

\* Lines 95-239: one pass of the loop.  With a single relabeled field
\* findImgsInDir returned its path, the loop runs over the characters of
\* the path and getFieldNumber finds no field number in a character.
Repro_Iterate ==
  /\ called = "Quantify_Reproducibility"
  /\ result.pc = "loop"
  /\ result.f < args.relabeledFields
  /\ \E field \in Fields :
       result' =
         IF args.relabeledFields = 1
         THEN [result EXCEPT !.pc = "Error", !.err = "AttributeError"]
         ELSE IF ~field.reLabelSegFile
         THEN [result EXCEPT !.f = @ + 1]
         ELSE IF ~field.origLabelSegFile
         THEN [result EXCEPT !.f = @ + 1]
         ELSE [result EXCEPT !.f = @ + 1,
                             !.FoV2xsRated = @ + 1,
                             !.origLabelSegFile = TRUE,
                             !.reproQuants = RateField(result.reproQuants, result.f + 1,
                                                       field, args.fovBoundary,
                                                       result.FoV2xsRated)]
  /\ UNCHANGED <<grid, rm, called, args>>

\* Lines 242-256: Rater2 is added and the table is written; the file name
\* needs origLabelSegFile, which only a rated field binds.
Repro_Save ==
  /\ called = "Quantify_Reproducibility"
  /\ result.pc = "loop"
  /\ result.f = args.relabeledFields
  /\ \E table \in {AddRater2(result.reproQuants, result.FoV2xsRated)} :
       result' =
         IF ~result.origLabelSegFile
         THEN [result EXCEPT !.pc = "Error", !.err = "NameError", !.reproQuants = table]
         ELSE [result EXCEPT !.pc = "Done", !.reproQuants = table,
                             !.rows = RowsWritten(table)]
  /\ UNCHANGED <<grid, rm, called, args>>

\* The script finds no to MaxRelabeled relabeled fields; the field boundary
\* is the whole canvas of the masks.
InitRepro ==
  /\ NoGrid
  /\ rm = <<>>
  /\ called = ""
  /\ args \in [relabeledFields : 0 .. MaxRelabeled,
               fovBoundary : {<<Rect(0, MaxSide - 1, 0, MaxSide - 1)>>}]
  /\ result = <<>>

NextRepro == Repro_Start \/ Repro_Iterate \/ Repro_Save

SpecRepro == InitRepro /\ [][NextRepro]_vars

\* ------------------------------------------------------------ properties
\* C1: the tiling loop ends after finitely many iterations.  The loop has no
\* state but the mask, the remaining region, its area, the list of fields and
\* the counter, and an iteration is a function of that state: the loop ends
\* if and only if no iteration that leaves the loop running leaves this state
\* as it found it.
C1_NoIterationRepeats ==
  (nIter > 0 /\ pc = "Iterating" /\ imgROIArea > fieldArea) =>
    ~(/\ ~last.accepted
      /\ imgSegMask = last.mask
      /\ imgROI = <<last.mask>>
      /\ imgROIArea = last.area)

\* C2: when the extent of the relevant region is not larger than the area of
\* one field at the first test of the loop, the run ends without an error and
\* with an empty list of fields.
C2_SmallRegionReturnsEmpty ==
  (/\ pc \in {"Done", "Error"}
   /\ origROI # <<>>
   /\ nIter = 0
   /\ BoundsArea(origROI[1]) <= fieldArea)
  => (pc = "Done" /\ err = "" /\ ROIs = <<>>)

\* Pixel p lies outside the square cleared for a crop width at an anchor: the
\* square reaches cropWidth to the right of and below the anchor and half of
\* cropWidth (rounded down) to the left of and above it.
OutsideCrop(p, anchor, cropWidth) ==
  \/ p[1] < anchor[1] - (cropWidth \div 2)
  \/ p[1] >= anchor[1] + cropWidth
  \/ p[2] < anchor[2] - (cropWidth \div 2)
  \/ p[2] >= anchor[2] + cropWidth

InsideField(f) ==
  {p \in Pixels(origROI[1]) : /\ f.x <= p[1] /\ p[1] < f.x + f.width
                              /\ f.y <= p[2] /\ p[2] < f.y + f.width}

\* The bounding area of a non-empty set of pixels.
ExtentOf(S) ==
  (MaxOf({p[1] : p \in S}) - MinOf({p[1] : p \in S}) + 1)
  * (MaxOf({p[2] : p \in S}) - MinOf({p[2] : p \in S}) + 1)

\* C6: every field of the list passes the containment test against the
\* relevant region selected in Seeding: the extent of the part of that region
\* inside the field differs from the area of the field by less than 1%.
C6_FieldsContainedInOriginal ==
  \A i \in 1 .. Len(ROIs) :
    /\ InsideField(ROIs[i]) # {}
    /\ 100 * Abs(ExtentOf(InsideField(ROIs[i])) - ROIs[i].width * ROIs[i].width)
         < ROIs[i].width * ROIs[i].width

C6_LaterFieldAccepted ==
  /\ pc = "Done"
  /\ Len(ROIs) >= 2
  /\ imgSegMask # origROI[1]

\* C7: the true fields (side field_size, field_overlap inside the full field)
\* of two distinct fields of one run share no pixel.
C7_TrueFieldsDisjoint ==
  \A i, j \in 1 .. Len(ROIs) :
    i < j => \/ Abs(ROIs[i].x - ROIs[j].x) >= field_size
             \/ Abs(ROIs[i].y - ROIs[j].y) >= field_size

\* C8: a second run on the same image with the same arguments ends as the
\* first did, with the same fields at the same anchors in the same order,
\* whatever the ROI Manager held when it started.
C8_SecondRunSame ==
  (run = 2 /\ pc \in {"Done", "Error"}) =>
    /\ first.pc = pc
    /\ first.err = err
    /\ first.ROIs = ROIs
    /\ first.fieldBoundary = fieldBoundary

C8_SecondRunWithLeftovers ==
  /\ run = 2
  /\ pc = "Done"
  /\ first.rm # <<>>
  /\ Len(ROIs) >= 2

\* C9: the fields of the list carry the numbers 1 .. n in order, n the length
\* of the list, and the counter is n + 1, at every point of a run.
C9_SequentialNumbers ==
  /\ iFov = Len(ROIs) + 1
  /\ \A i \in 1 .. Len(ROIs) :
       ROIs[i].name[1] = "Field-" /\ Field_Number(ROIs[i].name) = i

C9_NumberedAfterRejection ==
  /\ Len(ROIs) >= 2
  /\ ~last.accepted
  /\ nIter > Len(ROIs)

\* C10: the stored rotation lies in (-90, 0] and differs from
\* rotationDegrees by a multiple of 90.
C10_StoredRotation ==
  pc = "Rotated" =>
    /\ rotation > 0 - 90
    /\ rotation <= 0
    /\ (rotationDegrees - rotation) % 90 = 0

C10_PositiveTurned ==
  /\ pc = "Rotated"
  /\ rotationDegrees > 0
  /\ rotation < 0

\* C11: a run given the rotation that an earlier run stored (rotationDegrees
\* mod -90) as its rotationDegrees stores, and so gives every field and the
\* field boundary, the same rotation as that earlier run.
C11_NormalizedRunSameRotation ==
  (pc = "Rotated" /\ run = 2) => rotation = first.rotation

C11_RerunAfter450 ==
  /\ pc = "Rotated"
  /\ run = 2
  /\ first.rotationDegrees = 450
  /\ rotationDegrees = PyMod(450, -90)
  /\ rotation = first.rotation

\* C12: a candidate that has lost more than 1% of its pixels in the
\* intersection with the container is never reported as contained.
C12_ContainedKeepsPixels ==
  (called = "isContained" /\ result) =>
    100 * (npoints(args[1]) - npoints(getIntersectingROI(<<args[1], args[2]>>)))
      <= npoints(args[1])

\* C13: a candidate whose area differs from the area of the intersection by
\* exactly 1% of the candidate's area is reported as contained.
C13_ExactlyOnePercentContained ==
  (/\ called = "isContained"
   /\ 100 * Abs(BoundsArea(getIntersectingROI(<<args[1], args[2]>>)) - BoundsArea(args[1]))
        = BoundsArea(args[1]))
    => result

C16_SinglePartUnchanged ==
  (called = "cleanUpROI" /\ Len(SplitROI(args.ROI)) = 1) =>
    /\ result.err = ""
    /\ result.roi = <<args.ROI>>

\* The disconnected pieces of a region.
PiecesOf(R) == Range(Components(R, 4))

\* C17: cleanUpROI of a selection of two or more disconnected pieces returns
\* one of those pieces, and no piece has a larger bounding area.
C17_ReturnsOnePiece ==
  (called = "cleanUpROI" /\ Cardinality(PiecesOf(args.ROI)) >= 2) =>
    /\ result.err = ""
    /\ \E C \in PiecesOf(args.ROI) :
         /\ result.roi = <<C>>
         /\ \A D \in PiecesOf(args.ROI) : BoundsArea(D) <= BoundsArea(C)

\* C17 (amended): cleanUpROI of a selection of two or more disconnected
\* pieces returns one of those pieces with its holes filled in, and no piece
\* has a larger bounding area.
C17_ReturnsOneFilledPiece ==
  (called = "cleanUpROI" /\ Cardinality(PiecesOf(args.ROI)) >= 2) =>
    /\ result.err = ""
    /\ \E C \in PiecesOf(args.ROI) :
         /\ result.roi = <<Normalize(C \cup Holes(C))>>
         /\ \A D \in PiecesOf(args.ROI) : BoundsArea(D) <= BoundsArea(C)

C17_LargerOfTwoKept ==
  /\ called = "cleanUpROI"
  /\ Cardinality(PiecesOf(args.ROI)) = 2
  /\ result.err = ""
  /\ result.roi[1] \in PiecesOf(args.ROI)
  /\ \E D \in PiecesOf(args.ROI) : BoundsArea(D) < BoundsArea(result.roi[1])

\* C18: combineROIs and getIntersectingROI applied to an empty list raise an
\* exception to their caller and return no region.
C18_EmptyListRaises ==
  (called \in {"combineROIs", "getIntersectingROI"} /\ args = <<>>) =>
    /\ result.err # ""
    /\ result.roi = <<>>

C18_UnionOfNothingRaised ==
  /\ called = "combineROIs"
  /\ args = <<>>
  /\ result.err = "IndexError"

\* Whether a mask has no pixel of the segmentation.
Blank(seg) == Bright(seg) = {}

\* C19: getDC_JI returns (NaN, NaN) when both masks are blank, and a Dice
\* coefficient and a Jaccard index of 0 when exactly one of them is.
C19_BlankMasks ==
  called = "getDC_JI" =>
    /\ (Blank(args[1]) /\ Blank(args[2])) => (result.DC.nan /\ result.JI.nan)
    /\ (Blank(args[1]) # Blank(args[2])) =>
         /\ ~result.DC.nan /\ result.DC.num = 0
         /\ ~result.JI.nan /\ result.JI.num = 0

\* C20: comparing a mask that is not blank with itself gives a Dice
\* coefficient and a Jaccard index of 1.
C20_SelfComparisonIsOne ==
  (called = "getDC_JI" /\ args[1] = args[2] /\ ~Blank(args[1])) =>
    /\ ~result.DC.nan /\ result.DC.num = result.DC.den
    /\ ~result.JI.nan /\ result.JI.num = result.JI.den

C22_FullCanvasWithoutPadding ==
  (pc \in {"Iterating", "Done", "Error"} /\ img.lo > 0) => origROI = <<Canvas(img)>>

\* The blank (0) pixels of an image that are connected to a corner of its
\* canvas, and the intensity of a pixel.
Corners(im) == {<<0, 0>>, <<im.w - 1, 0>>, <<0, im.h - 1>>, <<im.w - 1, im.h - 1>>}

BlankFromCorners(im) ==
  IF im.lo # 0 THEN {}
  ELSE UNION {Pixels(C) : C \in {D \in Range(Components(im.dark, 4)) :
                                   Pixels(D) \cap Corners(im) # {}}}

Intensity(im, p) == IF Covered(im.dark, p[2], p[1]) THEN im.lo ELSE im.hi

C24_UnequalVarianceTStatistic ==
  (called = "ttest" /\ (args.v1 * args.n2) + (args.v2 * args.n1) # 0) =>
    /\ result.err = ""
    /\ result.squareNum * ((args.v1 * args.n2) + (args.v2 * args.n1))
         = (args.m1 - args.m2) * (args.m1 - args.m2) * args.n1 * args.n2 * result.squareDen

\* C25: after a crop the remaining region is defined, so no loop iteration
\* ends the run with an exception.
C25_CropNeverAborts ==
  (nIter > 0 /\ pc \in {"Iterating", "Error"}) => (imgROI # <<>> /\ err # "AttributeError")

\* C26: saveROIs, openROIFile and cleanUpROI, when they return, leave in the
\* ROI Manager the ROIs it held before the call, in the same order.
C26_ManagerRestored ==
  (called \in {"saveROIs", "openROIFile", "cleanUpROI"} /\ result.err = "") =>
    rm = result.before

\* C27: in background mode the blank area of a mask without foreground is
\* the whole window2compare, two blank masks compared over a window have a
\* Dice coefficient and a Jaccard index of 1, and neither ROI is None when
\* the test of line 1433 is reached.
C27_BlankBackgroundIsWindow ==
  (called = "getDC_JI" /\ result.err = "") =>
    /\ result.ROI1 # <<>> /\ result.ROI2 # <<>>
    /\ Blank(args.seg1) => result.ROI1 = args.window2compare
    /\ Blank(args.seg2) => result.ROI2 = args.window2compare
    /\ (Blank(args.seg1) /\ Blank(args.seg2)) =>
         /\ ~result.DC.nan /\ result.DC.num = result.DC.den
         /\ ~result.JI.nan /\ result.JI.num = result.JI.den

C27_TwoBlankMasksOverWindow ==
  /\ called = "getDC_JI"
  /\ result.err = ""
  /\ Blank(args.seg1) /\ Blank(args.seg2)
  /\ npoints(args.window2compare[1]) > 1
  /\ result.JI = Quotient(npoints(args.window2compare[1]),
                          npoints(args.window2compare[1]))

\* C28: when the input directory holds no RotationInDegrees_ text file the
\* script raises no error, and it reaches the gridOfFields call with
\* rotation = 0.
C28_UnrotatedImageReachesGrid ==
  (/\ called = "Separate_Image_Into_Fields"
   /\ ~ \E f \in args.inputDir : f.prefix = "RotationInDegrees_" /\ f.ext = "txt") =>
    /\ result.err = ""
    /\ result.pc = "gridOfFields" => result.rotation = <<0>>

\* C29: segmentation2ROIs returns with the ROI Manager empty, so once a
\* tiling run has cropped the mask the ROI Manager holds nothing, whatever
\* it held before.
C29_ManagerEmptyAfterCrop == nIter > 0 => rm = <<>>

C29_PriorROIsGone ==
  /\ nIter = 1
  /\ pc = "Iterating"
  /\ Len(last.rm) = 2
  /\ rm = <<>>

\* C30: after every completed pass of the loop over the relabeled fields
\* each list of reproQuants other than Rater2 is as long as FoV2xsRated
\* says, and the table is written with that many rows.
C30_ColumnsAsLongAsCounter ==
  (called = "Quantify_Reproducibility" /\ result.pc \in {"loop", "Done"}) =>
    /\ \A key \in DOMAIN result.reproQuants \ {<<"Rater2">>} :
         Len(result.reproQuants[key]) = result.FoV2xsRated
    /\ result.pc = "Done" => result.rows = result.FoV2xsRated

C30_NewColumnPadded ==
  /\ called = "Quantify_Reproducibility"
  /\ result.pc = "Done"
  /\ result.FoV2xsRated = 2
  /\ <<"N", "NeuN", "Rater1">> \in DOMAIN result.reproQuants
  /\ result.reproQuants[<<"N", "NeuN", "Rater1">>] = <<0, 1>>
  /\ result.reproQuants[<<"N", "NeuN", "Rater2">>] = <<0, 2>>
  /\ result.rows = 2

====
